---- MODULE Spec2Model ----
(***************************************************************************)
(* A model of the dolsdk2001 build-description generator:                  *)
(*   - tools/project/config.py : Lib.__init__, the profile x unit          *)
(*     cross-product of Objects, Archives and Diffs;                       *)
(*   - tools/project.py        : generate_build (load_build_config,        *)
(*     generate_build_ninja, generate_objdiff_config) and                  *)
(*     calculate_progress (ProgressUnit).                                  *)
(*                                                                         *)
(* Representation of the Python values:                                    *)
(*   - a directory path is a sequence of components, <<"build", "obj">>;   *)
(*   - a file path is a record [dir, stem, suffix]: pathlib's parent       *)
(*     components, and the final component split at its last dot, which is *)
(*     what Path.with_suffix works on;                                     *)
(*   - a compiler flag is the sequence of its space-separated words, each  *)
(*     word the sequence of its comma-separated values, so that            *)
(*     "-inline auto,deferred" is <<<<"-inline">>, <<"auto","deferred">>>>;*)
(*     flag.startswith("-inline ") and flag.split(" ")[1].split(",") are   *)
(*     computed on that;                                                   *)
(*   - None, where a record may stand, is the record [none |-> TRUE]; an   *)
(*     unset list is the empty list (the code reads it as `x or {}`).      *)
(***************************************************************************)
EXTENDS Integers, Sequences, FiniteSets, TLC

VARIABLES
    \* ---- tools/project/config.py: construction of the libraries
    profiles,     \* config.profiles: the list of Profile records
    impl,         \* whether the configuration implements output_dir / archive_dir
    libdecls,     \* the declared libraries: a list of [name, units]
    li,           \* index of the library under construction
    pi,           \* index of the profile of the running `for profile` loop
    libs,         \* the Lib objects constructed so far: [archives, objects, diffs]
    lib_pc,       \* "idle" | "new" | "profiles" | "done" | "NotImplementedError"
    \* ---- tools/project.py: calculate_progress
    config_libs,          \* config.libs: the list of libraries, each the list of its Objects
    progress_all,         \* config.progress_all
    progress_modules,     \* config.progress_modules
    progress_each_module, \* config.progress_each_module
    all_progress,         \* ProgressUnit("All") or None
    dol_progress,         \* ProgressUnit("DOL")
    rels_progress,        \* ProgressUnit("Modules") or None
    modules_progress,     \* the list of the per-module ProgressUnits
    unit,                 \* the record the loops fold (`unit`), None before the first
    n_units,              \* how many records have been folded
    printed,              \* the lines print_category has printed
    progress_json,        \* the file progress.json
    prog_pc,              \* "idle" | "dol" | "rels" | "print" | "done" | "ZeroDivisionError"
    \* ---- tools/project.py: generate_build
    config,               \* the ProjectConfig: unset required attributes, tool paths and tags
    platform,             \* "linux" (sys.platform linux on x86), "posix" (another), "nt" (Windows)
    fs_config,            \* the file out_path()/config.json
    fs_ninja,             \* the file build.ninja
    fs_objdiff,           \* the file objdiff.json
    fs_before,            \* the three files as they were when the run started
    build_config,         \* what load_build_config returned
    out,                  \* the StringIO the build graph is composed in
    objdiff_config,       \* the dict generate_objdiff_config composes
    gen_error,            \* how the run ended, if it failed
    gen_pc,               \* position of the generator
    runs                  \* how many runs of the generator have completed before this one

libVars == <<profiles, impl, libdecls, li, pi, libs, lib_pc>>

progVars == <<config_libs, progress_all, progress_modules, progress_each_module,
              all_progress, dol_progress, rels_progress, modules_progress,
              unit, n_units, printed, progress_json, prog_pc>>

genVars == <<config, platform, fs_config, fs_ninja, fs_objdiff, fs_before,
             build_config, out, objdiff_config, gen_error, gen_pc, runs>>

vars == <<libVars, progVars, genVars>>

None == [none |-> TRUE]

\* None, where a string (a path, a tag) may stand
Unset == "None"

\* How a run ends: no error, sys.exit("ProjectConfig.<attr> missing"), or an
\* exception of some kind
NoError == [kind |-> "", missing |-> ""]
ExitMissing(attr) == [kind |-> "SystemExit", missing |-> attr]
Raised(kind) == [kind |-> kind, missing |-> ""]

\* A file that does not exist, and one that holds `content`
Absent == [exists |-> FALSE]
FileOf(content) == [exists |-> TRUE, content |-> content]

\* ------------------------------------------------------------------ bounds

MaxUnits == 2
MaxProfiles == 2
MaxRecords == 2
MaxUnset == 1
MaxRuns == 2

\* ------------------------------------------------------------- sequences

SeqsUpTo(S, n) == UNION { [1..k -> S] : k \in 0..n }

RECURSIVE Flatten(_)
Flatten(ss) == IF ss = <<>> THEN <<>> ELSE Head(ss) \o Flatten(Tail(ss))

\* map(f, xs) for a list
SeqMap(f(_), xs) == [i \in 1..Len(xs) |-> f(xs[i])]

Range(xs) == { xs[i] : i \in 1..Len(xs) }

\* ------------------------------------------------------------------ paths

\* Path(dir) / file
Join(d, f) == [f EXCEPT !.dir = d \o f.dir]

\* Path.with_suffix(s): replaces the final component's last suffix
WithSuffix(f, s) == [f EXCEPT !.suffix = s]

IsPrefix(d, e) == Len(d) <= Len(e) /\ SubSeq(e, 1, Len(d)) = d

\* Path.relative_to(d): ValueError when d is no parent of f
RelativeTo(f, d) ==
    IF IsPrefix(d, f.dir)
    THEN [f EXCEPT !.dir = SubSeq(f.dir, Len(d) + 1, Len(f.dir))]
    ELSE [error |-> "ValueError"]

File(stem, suffix) == [dir |-> <<>>, stem |-> stem, suffix |-> suffix]

\* ------------------------------------------------------------------ flags

Flag1(a) == << <<a>> >>
Flag2(a, vals) == << <<a>>, vals >>

\* ---------------------------------------------- the declared project model

Unit(name, complete, signed_char) ==
    [name |-> name, complete |-> complete, signed_char |-> signed_char]

Profile(name, archive_suffix, cflags) ==
    [name |-> name, archive_suffix |-> archive_suffix, cflags |-> cflags]

\* Units: two with different stems, and two whose names differ only in the
\* extension.
UnitPool ==
    { Unit(File("OSAlloc", ".c"), TRUE, FALSE),
      Unit(File("OSReboot", ".c"), FALSE, TRUE),
      Unit(File("OSAlloc", ".cpp"), FALSE, TRUE) }

ProfilePool ==
    { Profile("release", "", << Flag1("-O4,p"), Flag2("-inline", <<"auto", "deferred">>) >>),
      Profile("debug", "D", << Flag2("-inline", <<"deferred">>),
                               Flag2("-opt", <<"off">>),
                               Flag2("-inline", <<"nodeferred">>) >>) }

LibNames == <<"os", "gx">>

\* ProjectConfig (config.py): class attributes and the two directory properties.
\* output_dir and archive_dir raise NotImplementedError in the class as written
\* (their bodies are the comments `build_dir / version`, `orig_dir / version`);
\* a configuration that implements them returns those paths.
ConfigVersion == "DOLSDK-2001-05-22"
src_dir == <<"src">>
build_dir == <<"build">>
orig_dir == <<"orig">>
output_dir == IF impl THEN build_dir \o <<ConfigVersion>> ELSE "NotImplementedError"
archive_dir == IF impl THEN orig_dir \o <<ConfigVersion>> ELSE "NotImplementedError"

\* ------------------------------------------------------ parts not running

LibIdle ==
    /\ profiles = <<>>
    /\ impl = FALSE
    /\ libdecls = <<>>
    /\ li = 0
    /\ pi = 0
    /\ libs = <<>>
    /\ lib_pc = "idle"

ProgIdle ==
    /\ config_libs = <<>>
    /\ progress_all = FALSE
    /\ progress_modules = FALSE
    /\ progress_each_module = FALSE
    /\ all_progress = None
    /\ dol_progress = None
    /\ rels_progress = None
    /\ modules_progress = <<>>
    /\ unit = None
    /\ n_units = 0
    /\ printed = <<>>
    /\ progress_json = Absent
    /\ prog_pc = "idle"

NoConfig ==
    [ unset |-> {}, build_dtk_path |-> Unset, dtk_tag |-> Unset,
      sjiswrap_path |-> Unset, sjiswrap_tag |-> Unset,
      wrapper |-> Unset, wibo_tag |-> Unset,
      compilers_path |-> Unset, compilers_tag |-> Unset ]

GenIdle ==
    /\ config = NoConfig
    /\ platform = "linux"
    /\ fs_config = Absent
    /\ fs_ninja = Absent
    /\ fs_objdiff = Absent
    /\ fs_before = <<Absent, Absent, Absent>>
    /\ build_config = None
    /\ out = None
    /\ objdiff_config = None
    /\ gen_error = NoError
    /\ gen_pc = "idle"
    /\ runs = 0

\* ------------------------------------------------ Lib.__init__ (config.py)

\* make_dir(dir_name) = config.output_dir / dir_name / profile.name / name
make_dir(dir_name, profile, name) == output_dir \o <<dir_name, profile.name, name>>

\* cflags of an Object with the unit's signed_char not consulted
ObjectCflagsAlwaysUnsigned(u, profile) ==
    << Flag2("-char", <<"unsigned">>) >> \o profile.cflags

\* cflags of an Object: the signedness flag, then *profile.cflags
ObjectCflags(u, profile) ==
    << Flag2("-char", << IF u.signed_char THEN "signed" ELSE "unsigned" >>) >>
        \o profile.cflags

\* reverse_fn_order of the Diff that create_pair builds
DiffReverseFnOrder(u, profile) == FALSE

\* create_pair(u): the Object and the Diff of unit u under `profile` in library `name`
create_pair(u, profile, name) ==
    LET src_name == u.name
        obj_name == WithSuffix(src_name, ".o")
        base_path == Join(make_dir("obj", profile, name), obj_name)
        target_path == Join(make_dir("src", profile, name), obj_name)
        obj == [ src |-> Join(src_dir \o <<name>>, src_name),
                 base |-> base_path,
                 target |-> target_path,
                 dwarf |-> Join(make_dir("dwarf", profile, name), WithSuffix(src_name, ".c")),
                 mwcc |-> <<"GC", "1.2.5">>,
                 cflags |-> ObjectCflags(u, profile) ]
        diff == [ name |-> WithSuffix(Join(<<profile.name, name>>, src_name), ""),
                  target_path |-> target_path,
                  base_path |-> base_path,
                  reverse_fn_order |-> DiffReverseFnOrder(u, profile),
                  complete |-> u.complete ]
    IN  [obj |-> obj, diff |-> diff]

\* pairs = list(map(create_pair, units))
PairsDropFirst(units, profile, name) ==
    [i \in 1..(Len(units) - 1) |-> create_pair(units[i + 1], profile, name)]

Pairs(units, profile, name) ==
    [i \in 1..Len(units) |-> create_pair(units[i], profile, name)]

\* manifest=set(o.base.relative_to(base_dir) for o, _ in pairs)
Manifest(pairs, base_dir) ==
    { RelativeTo(pairs[i].obj.base, base_dir) : i \in 1..Len(pairs) }

\* The Archive of one (library, profile)
MakeArchive(pairs, profile, name) ==
    [ src |-> [dir |-> archive_dir, stem |-> <<name, profile.archive_suffix>>, suffix |-> ".a"],
      dst |-> make_dir("obj", profile, name),
      manifest |-> Manifest(pairs, make_dir("obj", profile, name)) ]

LibInit ==
    /\ profiles \in SeqsUpTo(ProfilePool, MaxProfiles)
    /\ impl \in BOOLEAN
    /\ libdecls \in { <<[name |-> LibNames[1], units |-> u1],
                        [name |-> LibNames[2], units |-> u2]>> :
                        u1 \in SeqsUpTo(UnitPool, MaxUnits),
                        u2 \in SeqsUpTo(UnitPool, MaxUnits) }
    /\ li = 1
    /\ pi = 0
    /\ libs = <<>>
    /\ lib_pc = "new"
    /\ ProgIdle
    /\ GenIdle

\* Lib.__init__, lines 69-71: the three empty lists
LibNew ==
    /\ lib_pc = "new"
    /\ li <= Len(libdecls)
    /\ libs' = Append(libs, [archives |-> <<>>, objects |-> <<>>, diffs |-> <<>>])
    /\ pi' = 1
    /\ lib_pc' = "profiles"
    /\ UNCHANGED <<profiles, impl, libdecls, li>>
    /\ UNCHANGED <<progVars, genVars>>

\* One iteration of `for profile in config.profiles` (lines 73-124)
LibProfile ==
    /\ lib_pc = "profiles"
    /\ pi <= Len(profiles)
    /\ IF ~impl
       THEN \* make_dir("src") reads config.output_dir
            /\ lib_pc' = "NotImplementedError"
            /\ UNCHANGED <<pi, libs>>
       ELSE LET profile == profiles[pi]
                decl == libdecls[li]
                pairs == Pairs(decl.units, profile, decl.name)
                lib == libs[li]
            IN  /\ libs' = [libs EXCEPT ![li] =
                     [ archives |-> Append(lib.archives, MakeArchive(pairs, profile, decl.name)),
                       objects |-> lib.objects \o [i \in 1..Len(pairs) |-> pairs[i].obj],
                       diffs |-> lib.diffs \o [i \in 1..Len(pairs) |-> pairs[i].diff] ]]
                /\ pi' = pi + 1
                /\ UNCHANGED lib_pc
    /\ UNCHANGED <<profiles, impl, libdecls, li>>
    /\ UNCHANGED <<progVars, genVars>>

\* The loop is exhausted: __init__ returns and the next library is constructed
LibReturn ==
    /\ lib_pc = "profiles"
    /\ pi > Len(profiles)
    /\ li' = li + 1
    /\ lib_pc' = IF li + 1 > Len(libdecls) THEN "done" ELSE "new"
    /\ UNCHANGED <<profiles, impl, libdecls, pi, libs>>
    /\ UNCHANGED <<progVars, genVars>>

LibNext == LibNew \/ LibProfile \/ LibReturn

SpecLib == LibInit /\ [][LibNext]_vars

\* ---------------------------------------------------------------------------
\* calculate_progress (tools/project.py)
\* ---------------------------------------------------------------------------

\* Object(completed, name, **options): the options the generator reads are
\* "cflags" (None is the empty list here: the code reads `cflags or lib cflags`)
\* and "source" (the name, by default)
ObjWith(completed, name, cflags) ==
    [name |-> name, completed |-> completed, cflags |-> cflags, source |-> name]

Obj(completed, name) == ObjWith(completed, name, <<>>)

\* A library of config.libs (configure.py's DolphinLib)
LibOf(cflags, objects) == [cflags |-> cflags, objects |-> objects]

cflags_base == << Flag1("-O4,p"), Flag2("-inline", <<"auto">>) >>

\* The project models: configure.py's shape (one library; OSFont.c is
\* NonMatching there, here with flags of its own), one that declares OSFont.c
\* in two libraries with different completeness, and an unset config.libs
\* (None, which find_object reads as no library: `self.libs or {}`).
ConfigureLibs ==
    << LibOf(cflags_base,
             << Obj(TRUE, "OSAlloc.c"),
                ObjWith(FALSE, "OSFont.c",
                        << Flag2("-inline", <<"auto", "deferred">>) >>) >>) >>

ConfigLibsPool ==
    { ConfigureLibs,
      << LibOf(cflags_base, << Obj(FALSE, "OSFont.c") >>),
         LibOf(cflags_base, << Obj(TRUE, "OSFont.c"), Obj(TRUE, "OSAlloc.c") >>) >>,
      <<>> }

\* The records of the execution result (config.json `units`)
RecordNames == {"OSAlloc.c", "OSFont.c", "auto.c"}
CodeSizes == {0, 4}
DataSizes == {0, 1}
BuildObjs ==
    [name : RecordNames, code_size : CodeSizes, data_size : DataSizes,
     autogenerated : BOOLEAN]
\* build_config["modules"]: the names of the modules, in order
ModuleNames == <<"modA", "modB">>

\* ProjectConfig.find_object: (lib, obj) of the first Object of that name,
\* libraries in order, or None
RECURSIVE FindInObjects(_, _, _)
FindInObjects(lib, objs, name) ==
    IF objs = <<>> THEN None
    ELSE IF Head(objs).name = name THEN [lib |-> lib, obj |-> Head(objs)]
    ELSE FindInObjects(lib, Tail(objs), name)

RECURSIVE FindInLibs(_, _)
FindInLibs(ls, name) ==
    IF ls = <<>> THEN None
    ELSE LET r == FindInObjects(Head(ls), Head(ls).objects, name)
         IN  IF r # None THEN r ELSE FindInLibs(Tail(ls), name)

find_object(name) == FindInLibs(config_libs, name)

\* ProgressUnit.__init__
ProgressUnit(name) ==
    [ name |-> name,
      code_total |-> 0, code_progress |-> 0,
      data_total |-> 0, data_progress |-> 0,
      objects_progress |-> 0, objects_total |-> 0,
      objects |-> {} ]

\* ProgressUnit.add with the autogenerated test left out
AddCreditsAutogenerated(pu, build_obj) ==
    LET include_object == build_obj.name \notin pu.objects
        counted == [pu EXCEPT
            !.code_total = @ + build_obj.code_size,
            !.data_total = @ + build_obj.data_size,
            !.objects = @ \cup {build_obj.name},
            !.objects_total = IF include_object THEN @ + 1 ELSE @]
        result == find_object(build_obj.name)
    IN  IF result = None THEN counted
        ELSE IF ~result.obj.completed THEN counted
        ELSE [counted EXCEPT
            !.code_progress = @ + build_obj.code_size,
            !.data_progress = @ + build_obj.data_size,
            !.objects_progress = IF include_object THEN @ + 1 ELSE @]

\* ProgressUnit.add with the completeness test left out
AddIgnoresCompleted(pu, build_obj) ==
    LET include_object == build_obj.name \notin pu.objects
        counted == [pu EXCEPT
            !.code_total = @ + build_obj.code_size,
            !.data_total = @ + build_obj.data_size,
            !.objects = @ \cup {build_obj.name},
            !.objects_total = IF include_object THEN @ + 1 ELSE @]
    IN  IF build_obj.autogenerated THEN counted
        ELSE IF find_object(build_obj.name) = None THEN counted
        ELSE [counted EXCEPT
            !.code_progress = @ + build_obj.code_size,
            !.data_progress = @ + build_obj.data_size,
            !.objects_progress = IF include_object THEN @ + 1 ELSE @]

\* ProgressUnit.add without the seen-set test
AddCountsEveryOccurrence(pu, build_obj) ==
    LET counted == [pu EXCEPT
            !.code_total = @ + build_obj.code_size,
            !.data_total = @ + build_obj.data_size,
            !.objects = @ \cup {build_obj.name},
            !.objects_total = @ + 1]
        result == find_object(build_obj.name)
    IN  IF build_obj.autogenerated THEN counted
        ELSE IF result = None THEN counted
        ELSE IF ~result.obj.completed THEN counted
        ELSE [counted EXCEPT
            !.code_progress = @ + build_obj.code_size,
            !.data_progress = @ + build_obj.data_size,
            !.objects_progress = @ + 1]

\* ProgressUnit.add with the sizes, too, counted once per object name
AddTotalsOncePerObject(pu, build_obj) ==
    LET include_object == build_obj.name \notin pu.objects
        counted == [pu EXCEPT
            !.code_total = IF include_object THEN @ + build_obj.code_size ELSE @,
            !.data_total = IF include_object THEN @ + build_obj.data_size ELSE @,
            !.objects = @ \cup {build_obj.name},
            !.objects_total = IF include_object THEN @ + 1 ELSE @]
        result == find_object(build_obj.name)
    IN  IF build_obj.autogenerated THEN counted
        ELSE IF result = None THEN counted
        ELSE IF ~result.obj.completed THEN counted
        ELSE [counted EXCEPT
            !.code_progress = @ + build_obj.code_size,
            !.data_progress = @ + build_obj.data_size,
            !.objects_progress = IF include_object THEN @ + 1 ELSE @]

\* ProgressUnit.add
Add(pu, build_obj) ==
    LET include_object == build_obj.name \notin pu.objects
        counted == [pu EXCEPT
            !.code_total = @ + build_obj.code_size,
            !.data_total = @ + build_obj.data_size,
            !.objects = @ \cup {build_obj.name},
            !.objects_total = IF include_object THEN @ + 1 ELSE @]
        result == find_object(build_obj.name)
    IN  IF build_obj.autogenerated THEN counted
        ELSE IF result = None THEN counted
        ELSE IF ~result.obj.completed THEN counted
        ELSE [counted EXCEPT
            !.code_progress = @ + build_obj.code_size,
            !.data_progress = @ + build_obj.data_size,
            !.objects_progress = IF include_object THEN @ + 1 ELSE @]

\* `if x: x.add(unit)` for an accumulator that may be None
AddIf(pu, build_obj) == IF pu = None THEN None ELSE Add(pu, build_obj)

\* The state once load_build_config has returned a configuration and the
\* "All" and "DOL" accumulators exist (lines 595-596)
ProgInit ==
    /\ config_libs \in ConfigLibsPool
    /\ progress_all \in BOOLEAN
    /\ progress_modules \in BOOLEAN
    /\ progress_each_module \in BOOLEAN
    /\ all_progress = IF progress_all THEN ProgressUnit("All") ELSE None
    /\ dol_progress = ProgressUnit("DOL")
    /\ rels_progress = None
    /\ modules_progress = <<>>
    /\ unit = None
    /\ n_units = 0
    /\ printed = <<>>
    /\ progress_json = Absent
    /\ prog_pc = "dol"
    /\ LibIdle
    /\ GenIdle

progConfig == <<config_libs, progress_all, progress_modules, progress_each_module>>

\* One iteration of `for unit in build_config["units"]` (lines 597-600)
AddDolUnit(build_obj) ==
    /\ prog_pc = "dol"
    /\ n_units < MaxRecords
    /\ unit' = build_obj
    /\ n_units' = n_units + 1
    /\ all_progress' = AddIf(all_progress, build_obj)
    /\ dol_progress' = Add(dol_progress, build_obj)
    /\ UNCHANGED <<progConfig, rels_progress, modules_progress, printed, progress_json, prog_pc>>
    /\ UNCHANGED <<libVars, genVars>>

\* The DOL loop ends; lines 603-604
BeginModules ==
    /\ prog_pc = "dol"
    /\ rels_progress' = IF progress_modules THEN ProgressUnit("Modules") ELSE None
    /\ modules_progress' = <<>>
    /\ prog_pc' = "rels"
    /\ UNCHANGED <<progConfig, all_progress, dol_progress, unit, n_units, printed, progress_json>>
    /\ UNCHANGED <<libVars, genVars>>

\* `for module in build_config["modules"]` takes the next module (lines 605-607)
BeginModule ==
    /\ prog_pc = "rels"
    /\ Len(modules_progress) < Len(ModuleNames)
    /\ modules_progress' =
           Append(modules_progress, ProgressUnit(ModuleNames[Len(modules_progress) + 1]))
    /\ UNCHANGED <<progConfig, all_progress, dol_progress, rels_progress, unit, n_units,
                   printed, progress_json, prog_pc>>
    /\ UNCHANGED <<libVars, genVars>>

\* The iteration without `all_progress.add(unit)`
AddModuleUnitNotInAll(build_obj) ==
    /\ prog_pc = "rels"
    /\ modules_progress # <<>>
    /\ n_units < MaxRecords
    /\ unit' = build_obj
    /\ n_units' = n_units + 1
    /\ rels_progress' = AddIf(rels_progress, build_obj)
    /\ modules_progress' = [modules_progress EXCEPT ![Len(modules_progress)] = Add(@, build_obj)]
    /\ UNCHANGED <<progConfig, all_progress, dol_progress, printed, progress_json, prog_pc>>
    /\ UNCHANGED <<libVars, genVars>>

\* One iteration of `for unit in module["units"]` (lines 608-613)
AddModuleUnit(build_obj) ==
    /\ prog_pc = "rels"
    /\ modules_progress # <<>>
    /\ n_units < MaxRecords
    /\ unit' = build_obj
    /\ n_units' = n_units + 1
    /\ all_progress' = AddIf(all_progress, build_obj)
    /\ rels_progress' = AddIf(rels_progress, build_obj)
    /\ modules_progress' = [modules_progress EXCEPT ![Len(modules_progress)] = Add(@, build_obj)]
    /\ UNCHANGED <<progConfig, dol_progress, printed, progress_json, prog_pc>>
    /\ UNCHANGED <<libVars, genVars>>

\* The module loop ends
EndModules ==
    /\ prog_pc = "rels"
    /\ prog_pc' = "print"
    /\ UNCHANGED <<progConfig, all_progress, dol_progress, rels_progress, modules_progress,
                   unit, n_units, printed, progress_json>>
    /\ UNCHANGED <<libVars, genVars>>

\* The accumulators print_category is called on and that are not None, in
\* the order of the calls (lines 641-649)
PrintedCategories ==
    (IF all_progress # None THEN <<all_progress>> ELSE <<>>)
    \o <<dol_progress>>
    \o (IF Len(modules_progress) > 0
        THEN (IF rels_progress # None THEN <<rels_progress>> ELSE <<>>)
             \o (IF progress_each_module THEN modules_progress ELSE <<>>)
        ELSE <<>>)

\* code_frac() / data_frac(): a quotient, ZeroDivisionError on a total of 0
Frac(progress, total) ==
    IF total = 0 THEN [error |-> "ZeroDivisionError"] ELSE [num |-> progress, den |-> total]

\* The line print_category prints for one accumulator
CategoryLine(pu) ==
    [ name |-> pu.name,
      code_frac |-> Frac(pu.code_progress, pu.code_total),
      data_frac |-> Frac(pu.data_progress, pu.data_total),
      files |-> <<pu.objects_progress, pu.objects_total>> ]

Raises(pu) == pu.code_total = 0 \/ pu.data_total = 0

\* progress_json[category] = {...}: a dict assignment
DictSet(d, key, value) ==
    IF \E i \in 1..Len(d) : d[i].key = key
    THEN [i \in 1..Len(d) |-> IF d[i].key = key THEN [key |-> key, value |-> value] ELSE d[i]]
    ELSE Append(d, [key |-> key, value |-> value])

add_category(d, category, pu) ==
    DictSet(d, category, [ code |-> pu.code_progress, code_total |-> pu.code_total,
                           data |-> pu.data_progress, data_total |-> pu.data_total ])

RECURSIVE AddModuleCategories(_, _)
AddModuleCategories(d, pus) ==
    IF pus = <<>> THEN d
    ELSE AddModuleCategories(add_category(d, Head(pus).name, Head(pus)), Tail(pus))

\* The dict lines 652-670 build
ProgressJson ==
    LET d1 == IF all_progress # None THEN add_category(<<>>, "all", all_progress) ELSE <<>>
        d2 == add_category(d1, "dol", dol_progress)
        d3 == IF Len(modules_progress) > 0 /\ rels_progress # None
              THEN add_category(d2, "modules", rels_progress) ELSE d2
    IN  IF Len(modules_progress) > 0 /\ progress_each_module
        THEN AddModuleCategories(d3, modules_progress) ELSE d3

\* Lines 615-672: the printed report, then progress.json
PrintAndWrite ==
    /\ prog_pc = "print"
    /\ LET cats == PrintedCategories
           bad == { i \in 1..Len(cats) : Raises(cats[i]) }
       IN  IF bad # {}
           THEN LET first == CHOOSE i \in bad : \A j \in bad : i <= j
                IN  /\ printed' = [i \in 1..(first - 1) |-> CategoryLine(cats[i])]
                    /\ prog_pc' = "ZeroDivisionError"
                    /\ UNCHANGED progress_json
           ELSE /\ printed' = [i \in 1..Len(cats) |-> CategoryLine(cats[i])]
                /\ progress_json' = FileOf(ProgressJson)
                /\ prog_pc' = "done"
    /\ UNCHANGED <<progConfig, all_progress, dol_progress, rels_progress, modules_progress,
                   unit, n_units>>
    /\ UNCHANGED <<libVars, genVars>>

ProgNext ==
    \/ \E build_obj \in BuildObjs : AddDolUnit(build_obj)
    \/ BeginModules
    \/ BeginModule
    \/ \E build_obj \in BuildObjs : AddModuleUnit(build_obj)
    \/ EndModules
    \/ PrintAndWrite

SpecProgress == ProgInit /\ [][ProgNext]_vars

\* ---------------------------------------------------------------------------
\* generate_build (tools/project.py)
\* ---------------------------------------------------------------------------

\* None, where a path may stand (a path is a sequence of components)
NoPath == <<>>

\* ProjectConfig.validate: required_attrs, in the order of the list
RequiredAttrs ==
    << "build_dir", "src_dir", "tools_dir", "check_sha_path", "config_path",
       "ldflags", "linker_version", "libs", "version" >>

\* The configurations: which required attributes are None, and for each tool
\* whether a path is given and whether a tag is set (configure.py's tags)
Configs ==
    [ unset : { S \in SUBSET Range(RequiredAttrs) : Cardinality(S) <= MaxUnset },
      build_dtk_path : { NoPath, <<"dtk-src">> },
      dtk_tag : { Unset, "v0.7.4" },
      sjiswrap_path : { NoPath, <<"bin", "sjiswrap.exe">> },
      sjiswrap_tag : { Unset, "v1.1.1" },
      wrapper : { NoPath, <<"wine64">> },
      wibo_tag : { Unset, "0.6.9" },
      compilers_path : { NoPath, <<"mwcc">> },
      compilers_tag : { Unset, "20231018" } ]

Platforms == { "linux", "posix", "nt" }

\* is_windows()
is_windows == platform = "nt"

\* str(v)[1:]: the tag without its first character ("v0.7.4" -> "0.7.4",
\* None -> "one")
StripFirst(tag) ==
    CASE tag = "v0.7.4" -> "0.7.4"
      [] tag = Unset -> "one"

\* versiontuple(v) = tuple(map(int, v.split("."))): the parts as numbers;
\* int() raises ValueError on a part that is no number
IsVersion(v) == v \in { "0.7.3", "0.7.4", "0.10.0" }

\* tuple(v.split(".")) without int(): the parts compare as text, "10" before "7"
versiontupleAsText(v) ==
    CASE v = "0.7.3" -> <<0, 7, 3>>
      [] v = "0.7.4" -> <<0, 7, 4>>
      [] v = "0.10.0" -> <<0, 1, 0>>

versiontuple(v) ==
    CASE v = "0.7.3" -> <<0, 7, 3>>
      [] v = "0.7.4" -> <<0, 7, 4>>
      [] v = "0.10.0" -> <<0, 10, 0>>

\* a < b on tuples of numbers
RECURSIVE TupleLess(_, _)
TupleLess(a, b) ==
    IF b = <<>> THEN FALSE
    ELSE IF a = <<>> THEN TRUE
    ELSE IF Head(a) # Head(b) THEN Head(a) < Head(b)
    ELSE TupleLess(Tail(a), Tail(b))

\* A record of config.json's `units`
BuildObj(name, autogenerated) ==
    [name |-> name, object |-> <<"obj", name>>, code_size |-> 4, data_size |-> 1,
     autogenerated |-> autogenerated]

\* config.json as decomp-toolkit writes it; version "" is a missing version
ConfigJson(version) ==
    [ version |-> version,
      name |-> "main",
      units |-> << BuildObj("OSAlloc.c", FALSE), BuildObj("auto.c", TRUE) >>,
      modules |-> << [name |-> "modA",
                      units |-> << BuildObj("OSFont.c", FALSE), BuildObj("OSLink.c", FALSE),
                                   BuildObj("extab.c", FALSE) >>] >> ]

ConfigJsonVersions == { "", "0.7.3", "0.7.4", "0.10.0" }

\* The project model of a run: configure.py's libraries and one more Object,
\* whose source file does not exist
GenerateLibs ==
    << [ConfigureLibs[1] EXCEPT !.objects = Append(@, Obj(TRUE, "OSLink.c"))] >>

\* The source files that exist under src_dir
SourcesOnDisk == { "OSAlloc.c", "OSFont.c" }

\* What build.ninja or objdiff.json held before the run, and a file opened
\* for writing and not yet written
OldText == [text |-> "old"]
EmptyText == [text |-> ""]

\* config.out_path() = build_dir / str(version): TypeError when build_dir is None
out_path(cfg) ==
    IF "build_dir" \in cfg.unset THEN [error |-> "TypeError"]
    ELSE <<"build", IF "version" \in cfg.unset THEN "None" ELSE ConfigVersion>>

\* load_build_config: [error, build_config, file], file being config.json
\* as the call leaves it
load_build_config(cfg, file) ==
    IF ~file.exists
    THEN [error |-> NoError, build_config |-> None, file |-> file]
    ELSE LET config_version == file.content.version
         IN  IF config_version = ""
             THEN [error |-> NoError, build_config |-> None, file |-> Absent]
             ELSE IF ~IsVersion(StripFirst(cfg.dtk_tag))
             THEN [error |-> Raised("ValueError"), build_config |-> None, file |-> file]
             ELSE IF TupleLess(versiontuple(config_version),
                               versiontuple(StripFirst(cfg.dtk_tag)))
             THEN [error |-> NoError, build_config |-> None, file |-> Absent]
             ELSE [error |-> NoError, build_config |-> file.content, file |-> file]

\* ProjectConfig.validate: the first required attribute that is None
Validate(cfg) ==
    LET missing == { i \in 1..Len(RequiredAttrs) : RequiredAttrs[i] \in cfg.unset }
    IN  IF missing = {} THEN NoError
        ELSE ExitMissing(RequiredAttrs[CHOOSE i \in missing : \A j \in missing : i <= j])

\* n.rule and n.build
Rule(name, command) == [name |-> name, command |-> command]
Build(outputs, rule, inputs, implicit, variables) ==
    [outputs |-> outputs, rule |-> rule, inputs |-> inputs, implicit |-> implicit,
     variables |-> variables]

build_tools_path == <<"build", "tools">>
download_tool == <<"tools", "download_tool.py">>
transform_dep == <<"tools", "transform_dep.py">>

DownloadBuild(output, tool, tag) ==
    Build(output, "download_tool", <<>>, <<download_tool>>,
          << <<"tool", tool>>, <<"tag", tag>> >>)

Step(error, rules, builds, path) ==
    [error |-> error, rules |-> rules, builds |-> builds, path |-> path]

\* f"dtk{EXE}": EXE is ".exe" on Windows
dtk_exe == IF is_windows THEN "dtk.exe" ELSE "dtk"

\* Lines 216-247: the toolkit, built from source or downloaded
DtkStep(cfg) ==
    IF cfg.build_dtk_path # NoPath
    THEN Step(NoError,
              << Rule("cargo", << <<"cargo build --release">> >>) >>,
              << Build(build_tools_path \o <<"release", dtk_exe>>, "cargo",
                       << cfg.build_dtk_path \o <<"Cargo.toml">> >>,
                       << cfg.build_dtk_path \o <<"Cargo.lock">> >>,
                       << <<"bin", "dtk">>, <<"target", build_tools_path>> >>) >>,
              build_tools_path \o <<"release", dtk_exe>>)
    ELSE IF cfg.dtk_tag # Unset
    THEN Step(NoError, <<>>,
              << DownloadBuild(build_tools_path \o <<dtk_exe>>, "dtk", cfg.dtk_tag) >>,
              build_tools_path \o <<dtk_exe>>)
    ELSE Step(ExitMissing("dtk_tag"), <<>>, <<>>, NoPath)

\* Lines 249-263: the charset wrapper
SjiswrapStep(cfg) ==
    IF cfg.sjiswrap_path # NoPath
    THEN Step(NoError, <<>>, <<>>, cfg.sjiswrap_path)
    ELSE IF cfg.sjiswrap_tag # Unset
    THEN Step(NoError, <<>>,
              << DownloadBuild(build_tools_path \o <<"sjiswrap.exe">>, "sjiswrap",
                               cfg.sjiswrap_tag) >>,
              build_tools_path \o <<"sjiswrap.exe">>)
    ELSE Step(ExitMissing("sjiswrap_tag"), <<>>, <<>>, NoPath)

\* Lines 265-287: the cross-exec wrapper; `path` is `wrapper`
WrapperStep(cfg) ==
    IF cfg.wibo_tag # Unset /\ platform = "linux" /\ cfg.wrapper = NoPath
    THEN Step(NoError, <<>>,
              << DownloadBuild(build_tools_path \o <<"wibo">>, "wibo", cfg.wibo_tag) >>,
              build_tools_path \o <<"wibo">>)
    ELSE IF ~is_windows /\ cfg.wrapper = NoPath
    THEN Step(NoError, <<>>, <<>>, <<"wine">>)
    ELSE Step(NoError, <<>>, <<>>, cfg.wrapper)

\* Lines 289-305: the compilers
CompilersStep(cfg) ==
    IF cfg.compilers_path # NoPath
    THEN Step(NoError, <<>>, <<>>, cfg.compilers_path)
    ELSE IF cfg.compilers_tag # Unset
    THEN Step(NoError, <<>>,
              << DownloadBuild(<<"build", "compilers">>, "compilers", cfg.compilers_tag) >>,
              <<"build", "compilers">>)
    ELSE Step(ExitMissing("compilers_tag"), <<>>, <<>>, NoPath)

\* Lines 312-348: the two compile rules
MwccRules(wrapper, sjiswrap, compilers) ==
    LET wrapper_cmd == IF wrapper # NoPath THEN <<wrapper>> ELSE <<>>
        mwcc == compilers \o <<"$mw_version", "mwcceppc.exe">>
        tail == IF ~is_windows THEN << <<"&& $python">>, transform_dep >> ELSE <<>>
    IN  << Rule("mwcc", wrapper_cmd \o <<mwcc>> \o tail),
           Rule("mwcc_sjis", wrapper_cmd \o <<sjiswrap, mwcc>> \o tail) >>

\* Lines 350-365 and 417-422: the rules that depend on nothing
HostRules == << Rule("host_cc", << <<"clang">> >>), Rule("host_cpp", << <<"clang++">> >>) >>
ConfigureRuleStamped ==
    Rule("configure", << <<"$python">>, <<"configure.py">>, <<"$configure_args">>,
                         << IF runs = 0 THEN "first run" ELSE "later run" >> >>)

ConfigureRule == Rule("configure", << <<"$python">>, <<"configure.py">>, <<"$configure_args">> >>)

\* generate_build_ninja up to the writing of the file: the error it exits
\* with, or the text of the build graph
NinjaText(cfg, bc) ==
    LET v == Validate(cfg)
        dtk == DtkStep(cfg)
        sjis == SjiswrapStep(cfg)
        wrap == WrapperStep(cfg)
        comp == CompilersStep(cfg)
        build_path == out_path(cfg)
        Failed(e) == [error |-> e, text |-> EmptyText]
    IN  IF v # NoError THEN Failed(v)
        ELSE IF dtk.error # NoError THEN Failed(dtk.error)
        ELSE IF sjis.error # NoError THEN Failed(sjis.error)
        ELSE IF comp.error # NoError THEN Failed(comp.error)
        ELSE [ error |-> NoError,
               text |->
                 [ rules |-> << Rule("download_tool", << <<"$python">>, download_tool >>) >>
                               \o dtk.rules
                               \o MwccRules(wrap.path, sjis.path, comp.path)
                               \o HostRules \o <<ConfigureRule>>,
                   builds |-> dtk.builds \o sjis.builds \o wrap.builds \o comp.builds
                               \o (IF bc # None
                                   THEN << Build(<<"all_source">>, "phony", <<>>, <<>>, <<>>) >>
                                   ELSE <<>>)
                               \o << Build(<<"build.ninja">>, "configure", <<>>,
                                           << build_path \o <<"config.json">>,
                                              <<"configure.py">>,
                                              <<"tools", "project.py">>,
                                              <<"tools", "ninja_syntax.py">> >>, <<>>) >>,
                   default |-> IF bc # None THEN build_path \o <<"progress.json">>
                               ELSE build_path \o <<"config.json">> ] ]

\* The names of the execution result, as paths
PathOf(name) ==
    CASE name = "OSAlloc.c" -> File("OSAlloc", ".c")
      [] name = "OSFont.c" -> File("OSFont", ".c")
      [] name = "OSLink.c" -> File("OSLink", ".c")
      [] name = "auto.c" -> File("auto", ".c")
      [] name = "extab.c" -> File("extab", ".c")

\* flag.startswith("-inline ")
StartsWithInline(flag) == Len(flag) >= 2 /\ flag[1] = <<"-inline">>

\* Lines 512-516: the values of one flag
RECURSIVE ScanValues(_, _)
ScanValues(values, reverse_fn_order) ==
    IF values = <<>> THEN reverse_fn_order
    ELSE ScanValues(Tail(values),
                    IF Head(values) = "deferred" THEN TRUE
                    ELSE IF Head(values) = "nodeferred" THEN FALSE
                    ELSE reverse_fn_order)

\* Lines 507-516: reverse_fn_order of a flag list
RECURSIVE ScanFlags(_, _)
ScanFlags(cflags, reverse_fn_order) ==
    IF cflags = <<>> THEN reverse_fn_order
    ELSE ScanFlags(Tail(cflags),
                   IF ~StartsWithInline(Head(cflags)) THEN reverse_fn_order
                   ELSE ScanValues(Head(cflags)[2], reverse_fn_order))

ReverseFnOrder(cflags) == ScanFlags(cflags, FALSE)

\* add_unit: objdiff_config["units"] after the call
add_unit(units, cfg, build_obj, module_name) ==
    LET base_object == WithSuffix(PathOf(build_obj.name), "")
        unit_config == [ name |-> Join(<<module_name>>, base_object),
                         target_path |-> build_obj.object ]
        result == find_object(build_obj.name)
    IN  IF build_obj.autogenerated THEN units
        ELSE IF result = None THEN Append(units, unit_config)
        ELSE IF result.obj.source \notin SourcesOnDisk THEN Append(units, unit_config)
        ELSE LET cflags == IF result.obj.cflags # <<>> THEN result.obj.cflags
                           ELSE result.lib.cflags
             IN  Append(units,
                        [ name |-> unit_config.name,
                          target_path |-> unit_config.target_path,
                          base_path |-> Join(out_path(cfg) \o <<"src">>,
                                             WithSuffix(base_object, ".o")),
                          reverse_fn_order |-> ReverseFnOrder(cflags),
                          complete |-> result.obj.completed ])

RECURSIVE AddUnits(_, _, _, _)
AddUnits(units, cfg, build_objs, module_name) ==
    IF build_objs = <<>> THEN units
    ELSE AddUnits(add_unit(units, cfg, Head(build_objs), module_name), cfg,
                  Tail(build_objs), module_name)

RECURSIVE AddModules(_, _, _)
AddModules(units, cfg, modules) ==
    IF modules = <<>> THEN units
    ELSE AddModules(AddUnits(units, cfg, Head(modules).units, Head(modules).name), cfg,
                    Tail(modules))

\* The dict generate_objdiff_config dumps (lines 457-530)
ObjdiffText(cfg, bc) ==
    [ min_version |-> "0.4.3",
      units |-> AddModules(AddUnits(<<>>, cfg, bc.units, bc.name), cfg, bc.modules) ]

GenInit ==
    /\ config \in Configs
    /\ platform \in Platforms
    /\ fs_config \in {Absent} \cup { FileOf(ConfigJson(v)) : v \in ConfigJsonVersions }
    /\ fs_ninja \in { Absent, FileOf(OldText) }
    /\ fs_objdiff \in { Absent, FileOf(OldText) }
    /\ fs_before = <<fs_config, fs_ninja, fs_objdiff>>
    /\ build_config = None
    /\ out = None
    /\ objdiff_config = None
    /\ gen_error = NoError
    /\ gen_pc = "start"
    /\ runs = 0
    /\ LibIdle
    /\ config_libs = IF "libs" \in config.unset THEN <<>> ELSE GenerateLibs
    /\ progress_all = FALSE
    /\ progress_modules = FALSE
    /\ progress_each_module = FALSE
    /\ all_progress = None
    /\ dol_progress = None
    /\ rels_progress = None
    /\ modules_progress = <<>>
    /\ unit = None
    /\ n_units = 0
    /\ printed = <<>>
    /\ progress_json = Absent
    /\ prog_pc = "idle"

\* generate_build, line 164: out_path() and load_build_config
GenLoad ==
    /\ gen_pc = "start"
    /\ IF "build_dir" \in config.unset
       THEN /\ gen_error' = Raised("TypeError")
            /\ gen_pc' = "failed"
            /\ UNCHANGED <<fs_config, build_config>>
       ELSE LET r == load_build_config(config, fs_config)
            IN  /\ fs_config' = r.file
                /\ build_config' = r.build_config
                /\ gen_error' = r.error
                /\ gen_pc' = IF r.error # NoError THEN "failed" ELSE "loaded"
    /\ UNCHANGED <<config, platform, fs_ninja, fs_objdiff, fs_before, out, objdiff_config>>
    /\ UNCHANGED <<runs, libVars, progVars>>

\* generate_build_ninja, lines 173-442: validate, then the text in `out`
GenBuildNinja ==
    /\ gen_pc = "loaded"
    /\ LET r == NinjaText(config, build_config)
       IN  IF r.error # NoError
           THEN /\ gen_error' = r.error
                /\ gen_pc' = "failed"
                /\ UNCHANGED out
           ELSE /\ out' = r.text
                /\ gen_pc' = "open_ninja"
                /\ UNCHANGED gen_error
    /\ UNCHANGED <<config, platform, fs_config, fs_ninja, fs_objdiff, fs_before,
                   build_config, objdiff_config>>
    /\ UNCHANGED <<runs, libVars, progVars>>

\* Line 445: open("build.ninja", "w") creates or truncates the file
GenOpenNinja ==
    /\ gen_pc = "open_ninja"
    /\ fs_ninja' = FileOf(EmptyText)
    /\ gen_pc' = "write_ninja"
    /\ UNCHANGED <<config, platform, fs_config, fs_objdiff, fs_before, build_config, out,
                   objdiff_config, gen_error>>
    /\ UNCHANGED <<runs, libVars, progVars>>

\* Lines 446-447: f.write(out.getvalue()), and the file is closed
GenWriteNinja ==
    /\ gen_pc = "write_ninja"
    /\ fs_ninja' = FileOf(out)
    /\ gen_pc' = "objdiff"
    /\ UNCHANGED <<config, platform, fs_config, fs_objdiff, fs_before, build_config, out,
                   objdiff_config, gen_error>>
    /\ UNCHANGED <<runs, libVars, progVars>>

\* generate_objdiff_config, lines 454-530: nothing without a build
\* configuration, else the dict
GenObjdiff ==
    /\ gen_pc = "objdiff"
    /\ IF build_config = None
       THEN /\ gen_pc' = "done"
            /\ UNCHANGED objdiff_config
       ELSE /\ objdiff_config' = ObjdiffText(config, build_config)
            /\ gen_pc' = "open_objdiff"
    /\ UNCHANGED <<config, platform, fs_config, fs_ninja, fs_objdiff, fs_before,
                   build_config, out, gen_error>>
    /\ UNCHANGED <<runs, libVars, progVars>>

\* Line 533: open("objdiff.json", "w")
GenOpenObjdiff ==
    /\ gen_pc = "open_objdiff"
    /\ fs_objdiff' = FileOf(EmptyText)
    /\ gen_pc' = "write_objdiff"
    /\ UNCHANGED <<config, platform, fs_config, fs_ninja, fs_before, build_config, out,
                   objdiff_config, gen_error>>
    /\ UNCHANGED <<runs, libVars, progVars>>

\* Line 536: json.dump, and the file is closed
GenWriteObjdiff ==
    /\ gen_pc = "write_objdiff"
    /\ fs_objdiff' = FileOf(objdiff_config)
    /\ gen_pc' = "done"
    /\ UNCHANGED <<config, platform, fs_config, fs_ninja, fs_before, build_config, out,
                   objdiff_config, gen_error>>
    /\ UNCHANGED <<runs, libVars, progVars>>

\* The generator is run again, with the same configuration and arguments and
\* the files as the completed run left them
GenRerun ==
    /\ gen_pc = "done"
    /\ runs + 1 < MaxRuns
    /\ runs' = runs + 1
    /\ fs_before' = <<fs_config, fs_ninja, fs_objdiff>>
    /\ build_config' = None
    /\ out' = None
    /\ objdiff_config' = None
    /\ gen_pc' = "start"
    /\ UNCHANGED <<config, platform, fs_config, fs_ninja, fs_objdiff, gen_error>>
    /\ UNCHANGED <<libVars, progVars>>

GenNext ==
    \/ GenRerun
    \/ GenLoad
    \/ GenBuildNinja
    \/ GenOpenNinja
    \/ GenWriteNinja
    \/ GenObjdiff
    \/ GenOpenObjdiff
    \/ GenWriteObjdiff

SpecGenerate == GenInit /\ [][GenNext]_vars

\* ---------------------------------------------------------------------------
\* The three programs together: one of them runs
\* ---------------------------------------------------------------------------

Init == LibInit \/ ProgInit \/ GenInit
Next == LibNext \/ ProgNext \/ GenNext
Spec == Init /\ [][Next]_vars

\* ---------------------------------------------------------------------------
\* Properties of the library construction (SpecLib)
\* ---------------------------------------------------------------------------

RECURSIVE SumSeq(_)
SumSeq(ns) == IF ns = <<>> THEN 0 ELSE Head(ns) + SumSeq(Tail(ns))

\* Profiles whose loop iteration has completed for library l
ProfilesDone(l) == IF l < li THEN Len(profiles) ELSE pi - 1

\* The Objects (Diffs) that library l got from its p-th profile
ObjectsOf(l, p) ==
    LET n == Len(libdecls[l].units)
    IN  SubSeq(libs[l].objects, (p - 1) * n + 1, p * n)

\* C1: every library has (profiles handled) x (units) Objects and as many
\* Diffs, and one Archive per profile handled; when all libraries are
\* constructed the Objects, and the Diffs, over all libraries number the sum
\* over the libraries of profiles x units, and each library has one Archive
\* per profile.
C1_CrossProductCount ==
    /\ \A l \in 1..Len(libs) :
          /\ Len(libs[l].objects) = ProfilesDone(l) * Len(libdecls[l].units)
          /\ Len(libs[l].diffs) = ProfilesDone(l) * Len(libdecls[l].units)
          /\ Len(libs[l].archives) = ProfilesDone(l)
    /\ lib_pc = "done" =>
          LET expected == SumSeq([l \in 1..Len(libdecls) |->
                                     Len(profiles) * Len(libdecls[l].units)])
          IN  /\ Len(libs) = Len(libdecls)
              /\ SumSeq([l \in 1..Len(libs) |-> Len(libs[l].objects)]) = expected
              /\ SumSeq([l \in 1..Len(libs) |-> Len(libs[l].diffs)]) = expected
              /\ \A l \in 1..Len(libs) : Len(libs[l].archives) = Len(profiles)

\* Two profiles, two libraries of two and of one unit: 6 Objects, 2 Archives each
C1_Witness ==
    /\ lib_pc = "done"
    /\ Len(profiles) = 2
    /\ Len(libdecls[1].units) = 2
    /\ Len(libdecls[2].units) = 1
    /\ Len(libs[1].objects) = 4
    /\ Len(libs[2].objects) = 2
    /\ Len(libs[1].archives) = 2

\* C2 (as claimed): the manifest of the Archive of every (library, profile) is
\* the set of the intermediate object paths of that library's Objects under
\* that profile, relative to the Archive's destination directory, and it has
\* as many entries as the library has units.
C2_ManifestAsClaimed ==
    \A l \in 1..Len(libs) : \A p \in 1..Len(libs[l].archives) :
        LET a == libs[l].archives[p]
            objs == ObjectsOf(l, p)
        IN  /\ a.manifest = { RelativeTo(objs[i].base, a.dst) : i \in 1..Len(objs) }
            /\ Cardinality(a.manifest) = Len(libdecls[l].units)

\* The inlining-order values of a flag list, in order: every comma-separated
\* value of the argument of an "-inline" flag that is deferred or nodeferred
InlineOrderValues(cflags) ==
    LET IsInline(f) == Len(f) >= 2 /\ f[1] = <<"-inline">>
        vals == Flatten([i \in 1..Len(cflags) |->
                            IF IsInline(cflags[i]) THEN cflags[i][2] ELSE <<>>])
    IN  SelectSeq(vals, LAMBDA v : v \in {"deferred", "nodeferred"})

LastInlineOrderIsDeferred(cflags) ==
    LET vs == InlineOrderValues(cflags)
    IN  vs # <<>> /\ vs[Len(vs)] = "deferred"

\* C3 (as claimed): the reverse_fn_order of every Diff is true iff the last
\* inlining-order value in the flags of its Object is `deferred`.
C3_ReverseFnOrderAsClaimed ==
    \A l \in 1..Len(libs) : \A i \in 1..Len(libs[l].diffs) :
        libs[l].diffs[i].reverse_fn_order
            = LastInlineOrderIsDeferred(libs[l].objects[i].cflags)

HasDuplicateNames(units) ==
    \E i, j \in 1..Len(units) : i # j /\ units[i].name = units[j].name

\* C10 (as claimed): a library whose unit list holds the same name twice gets
\* no Objects, Archives or Diffs, and its construction does not complete.
C10_DuplicateRejectedAsClaimed ==
    \A l \in 1..Len(libs) :
        HasDuplicateNames(libdecls[l].units) =>
            /\ libs[l].objects = <<>>
            /\ libs[l].archives = <<>>
            /\ libs[l].diffs = <<>>
            /\ l >= li
            /\ lib_pc # "done"

\* Every declared library is free of repeated unit names, and no profile is
\* listed twice
NamesDistinct ==
    /\ \A l \in 1..Len(libdecls) : ~HasDuplicateNames(libdecls[l].units)
    /\ \A p, q \in 1..Len(profiles) : p # q => profiles[p].name # profiles[q].name

\* The Objects of all libraries, in order of construction
AllObjects == Flatten([l \in 1..Len(libs) |-> libs[l].objects])

\* C11 (as claimed): when the construction of the libraries has completed
\* (unit names distinct within each library, profiles distinct), no two
\* Objects share an intermediate object path, an extracted-reference path or
\* a disassembly path.
C11_PathsUniqueAsClaimed ==
    (lib_pc = "done" /\ NamesDistinct) =>
        \A i, j \in 1..Len(AllObjects) :
            i # j =>
                /\ AllObjects[i].base # AllObjects[j].base
                /\ AllObjects[i].target # AllObjects[j].target
                /\ AllObjects[i].dwarf # AllObjects[j].dwarf

\* The unit and the profile the i-th Object of library l was made from
UnitOfObject(l, i) ==
    libdecls[l].units[((i - 1) % Len(libdecls[l].units)) + 1]
ProfileOfObject(l, i) ==
    profiles[((i - 1) \div Len(libdecls[l].units)) + 1]

\* C12 (as claimed): every Object's paths are
\* source = src_root/library/unit, intermediate object =
\* out_root/profile/library/obj/<stem>.o, extracted reference =
\* out_root/profile/library/src/<stem>.o, disassembly =
\* out_root/profile/library/dwarf/<stem>.c.
C12_DerivedPathsAsClaimed ==
    \A l \in 1..Len(libs) : \A i \in 1..Len(libs[l].objects) :
        LET o == libs[l].objects[i]
            u == UnitOfObject(l, i)
            name == libdecls[l].name
            root == output_dir \o <<ProfileOfObject(l, i).name, name>>
        IN  /\ o.src = Join(src_dir \o <<name>>, u.name)
            /\ o.base = Join(root \o <<"obj">>, WithSuffix(u.name, ".o"))
            /\ o.target = Join(root \o <<"src">>, WithSuffix(u.name, ".o"))
            /\ o.dwarf = Join(root \o <<"dwarf">>, WithSuffix(u.name, ".c"))

\* The character-signedness flags of a flag list, and the other flags
CharFlags(cflags) == SelectSeq(cflags, LAMBDA f : f[1] = <<"-char">>)
OtherFlags(cflags) == SelectSeq(cflags, LAMBDA f : f[1] # <<"-char">>)

FoldStep == n_units' = n_units + 1

\* The accumulators a folding step adds the record to, each as <<before, after>>
Folded ==
    { ba \in (IF prog_pc = "dol"
              THEN { <<all_progress, all_progress'>>, <<dol_progress, dol_progress'>> }
              ELSE { <<all_progress, all_progress'>>, <<rels_progress, rels_progress'>>,
                     <<modules_progress[Len(modules_progress)],
                       modules_progress'[Len(modules_progress)]>> }) :
        ba[1] # None }

\* The declarations of a name in the project model
Declared(name) ==
    { o \in UNION { Range(config_libs[l].objects) : l \in 1..Len(config_libs) } :
        o.name = name }

DeclaredComplete(name) == Declared(name) # {} /\ \A o \in Declared(name) : o.completed
NotDeclaredComplete(name) == \A o \in Declared(name) : ~o.completed

TotalsGrowBySizes(b, a, r) ==
    /\ a.code_total = b.code_total + r.code_size
    /\ a.data_total = b.data_total + r.data_size

ProgressUnchanged(b, a) ==
    /\ a.code_progress = b.code_progress
    /\ a.data_progress = b.data_progress
    /\ a.objects_progress = b.objects_progress

\* C4: adding an autogenerated record to an accumulator leaves code_progress,
\* data_progress and objects_progress as they were, whatever the project
\* model declares for its name; code_total and data_total grow by its sizes,
\* and objects_total counts its name (by one if the name is new to the
\* accumulator).
C4_AutogeneratedNoCredit ==
    [][ (FoldStep /\ unit'.autogenerated) =>
          \A ba \in Folded :
             /\ ProgressUnchanged(ba[1], ba[2])
             /\ TotalsGrowBySizes(ba[1], ba[2], unit')
             /\ unit'.name \in ba[2].objects
             /\ ba[2].objects_total
                  = ba[1].objects_total + (IF unit'.name \in ba[1].objects THEN 0 ELSE 1) ]_vars

\* An autogenerated record of 4 code bytes whose name is declared complete:
\* counted in the totals, no progress
C4_Witness ==
    /\ prog_pc = "dol"
    /\ n_units = 1
    /\ unit.autogenerated
    /\ unit.code_size = 4
    /\ DeclaredComplete(unit.name)
    /\ dol_progress.code_total = 4
    /\ dol_progress.objects_total = 1
    /\ dol_progress.code_progress = 0
    /\ dol_progress.objects_progress = 0

C6_NoDivisionErrorAsClaimed ==
    /\ prog_pc # "ZeroDivisionError"
    /\ prog_pc = "done" =>
          /\ progress_json.exists
          /\ Len(printed) = Len(PrintedCategories)
          /\ \A i \in 1..Len(printed) :
                /\ PrintedCategories[i].code_total = 0 => printed[i].code_frac.num = 0
                /\ PrintedCategories[i].data_total = 0 => printed[i].data_frac.num = 0

\* C7: adding a record whose name the accumulator has seen leaves its
\* objects_total and objects_progress as they were (a first occurrence adds at
\* most one to each), while code_total and data_total grow by the record's
\* sizes on every occurrence, and so do code_progress and data_progress for a
\* record that is not autogenerated and whose name is declared complete.
C7_ObjectCountedOnceBytesEveryTime ==
    [][ FoldStep =>
          \A ba \in Folded :
             /\ unit'.name \in ba[1].objects =>
                   /\ ba[2].objects_total = ba[1].objects_total
                   /\ ba[2].objects_progress = ba[1].objects_progress
             /\ ba[2].objects_total \in {ba[1].objects_total, ba[1].objects_total + 1}
             /\ ba[2].objects_progress \in {ba[1].objects_progress, ba[1].objects_progress + 1}
             /\ TotalsGrowBySizes(ba[1], ba[2], unit')
             /\ (~unit'.autogenerated /\ DeclaredComplete(unit'.name)) =>
                   /\ ba[2].code_progress = ba[1].code_progress + unit'.code_size
                   /\ ba[2].data_progress = ba[1].data_progress + unit'.data_size ]_vars

\* One object shared by two modules: "All" and "Modules" count it once and
\* its bytes twice
C7_Witness ==
    /\ prog_pc = "rels"
    /\ Len(modules_progress) = 2
    /\ modules_progress[1].objects = {"OSAlloc.c"}
    /\ modules_progress[2].objects = {"OSAlloc.c"}
    /\ all_progress # None
    /\ rels_progress # None
    /\ all_progress.objects_total = 1
    /\ all_progress.objects_progress = 1
    /\ all_progress.code_total = 8
    /\ all_progress.code_progress = 8
    /\ rels_progress.objects_total = 1
    /\ rels_progress.data_total = 2


\* The accumulators that exist
Accumulators ==
    { pu \in {all_progress, dol_progress, rels_progress} : pu # None }
        \cup Range(modules_progress)

\* C18: every accumulator has 0 <= code_progress <= code_total,
\* 0 <= data_progress <= data_total, 0 <= objects_progress <= objects_total,
\* and objects_total is the number of distinct object names added to it.
C18_ProgressWithinTotals ==
    \A pu \in Accumulators :
        /\ 0 <= pu.code_progress /\ pu.code_progress <= pu.code_total
        /\ 0 <= pu.data_progress /\ pu.data_progress <= pu.data_total
        /\ 0 <= pu.objects_progress /\ pu.objects_progress <= pu.objects_total
        /\ pu.objects_total = Cardinality(pu.objects)

\* "All" after a complete object was added to it twice: one object, its bytes
\* credited twice, progress equal to the total
C18_Witness ==
    /\ all_progress # None
    /\ n_units = 2
    /\ all_progress.objects_total = 1
    /\ all_progress.objects_progress = 1
    /\ all_progress.code_total = 8
    /\ all_progress.code_progress = 8

\* The whole execution result has been folded
Folded_All == prog_pc \in { "print", "done", "ZeroDivisionError" }

SumOver(pus, Field(_)) == SumSeq([i \in 1..Len(pus) |-> Field(pus[i])])

\* C19: with "All" and "Modules" both enabled, after the fold of the whole
\* execution result each of code_total, code_progress, data_total and
\* data_progress of "All" is the sum of those of "DOL" and "Modules", and each
\* of "Modules" is the sum over the per-module accumulators.
C19_AllIsDolPlusModules ==
    (Folded_All /\ progress_all /\ progress_modules) =>
        /\ all_progress.code_total = dol_progress.code_total + rels_progress.code_total
        /\ all_progress.code_progress = dol_progress.code_progress + rels_progress.code_progress
        /\ all_progress.data_total = dol_progress.data_total + rels_progress.data_total
        /\ all_progress.data_progress = dol_progress.data_progress + rels_progress.data_progress
        /\ rels_progress.code_total = SumOver(modules_progress, LAMBDA pu : pu.code_total)
        /\ rels_progress.code_progress = SumOver(modules_progress, LAMBDA pu : pu.code_progress)
        /\ rels_progress.data_total = SumOver(modules_progress, LAMBDA pu : pu.data_total)
        /\ rels_progress.data_progress = SumOver(modules_progress, LAMBDA pu : pu.data_progress)

\* A report written with one record in the DOL and one in a module, both with
\* code and data
C19_Witness ==
    /\ prog_pc = "done"
    /\ progress_all /\ progress_modules
    /\ dol_progress.code_total > 0
    /\ rels_progress.code_total > 0
    /\ rels_progress.code_progress > 0
    /\ Len(modules_progress) >= 1
    /\ all_progress.code_total = 8

\* ---------------------------------------------------------------------------
\* Properties of generate_build (SpecGenerate)
\* ---------------------------------------------------------------------------

\* The run has ended, by an error or by returning
GenEnded == gen_pc \in { "failed", "done" }

\* config.json, build.ninja and objdiff.json are as they were when the run
\* started: none created, none removed, none rewritten
FilesAsBefore == <<fs_config, fs_ninja, fs_objdiff>> = fs_before

\* Nothing but the compilers is missing: every required attribute is set, and
\* the toolkit and the charset wrapper have their tags
OnlyCompilersMissing ==
    /\ config.unset = {}
    /\ config.dtk_tag # Unset
    /\ config.sjiswrap_tag # Unset
    /\ config.compilers_path = NoPath
    /\ config.compilers_tag = Unset

C15_ReaderSeesWholeFile ==
    /\ \/ fs_ninja = fs_before[2]
       \/ out # None /\ fs_ninja = FileOf(out)
    /\ \/ fs_objdiff = fs_before[3]
       \/ objdiff_config # None /\ fs_objdiff = FileOf(objdiff_config)

\* load_build_config has been called and has returned: the output directory
\* is known and the toolkit version is pinned
Loaded ==
    /\ gen_pc # "start"
    /\ "build_dir" \notin config.unset
    /\ config.dtk_tag = "v0.7.4"

\* The versions of config.json lower than the pinned 0.7.4, and those equal
\* to it or higher
LowerVersions == { "0.7.3" }
CurrentVersions == { "0.7.4", "0.10.0" }

\* config.json, when the run started, was there but without a version or with
\* a lower one
WasStale ==
    /\ fs_before[1].exists
    /\ fs_before[1].content.version \in {""} \cup LowerVersions

WasCurrent ==
    /\ fs_before[1].exists
    /\ fs_before[1].content.version \in CurrentVersions

\* C16: load_build_config removes a config.json without a version or with a
\* version lower than the pinned one and returns no configuration; it
\* returns the content of one with an equal or higher version and leaves it;
\* for an absent file it returns no configuration and changes nothing. A run
\* that completes after a stale file was removed, or with the file absent,
\* writes the graph of no configuration (default target config.json) and
\* leaves objdiff.json alone.
C16_StaleConfigDiscarded ==
    Loaded =>
        /\ WasStale => build_config = None /\ fs_config = Absent
        /\ WasCurrent => build_config = fs_before[1].content /\ fs_config = fs_before[1]
        /\ ~fs_before[1].exists => build_config = None /\ fs_config = Absent
        /\ (gen_pc = "done" /\ ~WasCurrent) =>
              /\ fs_ninja = FileOf(NinjaText(config, None).text)
              /\ fs_ninja.content.default = <<"build", ConfigVersion, "config.json">>
              /\ fs_objdiff = fs_before[3]

\* A completed run that started with a config.json of version 0.7.3 and an
\* objdiff.json from earlier: the file is gone, the default target is
\* config.json and objdiff.json is as it was
C16_Witness ==
    /\ Loaded
    /\ gen_pc = "done"
    /\ fs_before[1].exists
    /\ fs_before[1].content.version = "0.7.3"
    /\ fs_config = Absent
    /\ fs_before[3] = FileOf(OldText)
    /\ fs_objdiff = FileOf(OldText)

\* The four external tools: the path the user may supply, the version tag,
\* and the compile rules that run the tool
ToolSpecs ==
    { [tool |-> "dtk", path |-> config.build_dtk_path, tag |-> config.dtk_tag,
       rules |-> {}],
      [tool |-> "sjiswrap", path |-> config.sjiswrap_path, tag |-> config.sjiswrap_tag,
       rules |-> {"mwcc_sjis"}],
      [tool |-> "wibo", path |-> config.wrapper, tag |-> config.wibo_tag,
       rules |-> {"mwcc", "mwcc_sjis"}],
      [tool |-> "compilers", path |-> config.compilers_path, tag |-> config.compilers_tag,
       rules |-> {"mwcc", "mwcc_sjis"}] }

HasVariable(b, key, value) ==
    \E k \in 1..Len(b.variables) : b.variables[k][1] = key /\ b.variables[k][2] = value

\* The steps of the graph that produce a tool: its download, or its build
\* from source
StepsProducing(tool) ==
    { i \in 1..Len(out.builds) :
        \/ out.builds[i].rule = "download_tool" /\ HasVariable(out.builds[i], "tool", tool)
        \/ out.builds[i].rule = "cargo" /\ HasVariable(out.builds[i], "bin", tool) }

DownloadsOf(tool, tag) ==
    { i \in 1..Len(out.builds) :
        /\ out.builds[i].rule = "download_tool"
        /\ HasVariable(out.builds[i], "tool", tool)
        /\ HasVariable(out.builds[i], "tag", tag) }

\* The implicit dependencies of the steps that use a rule
ImplicitOf(rule) ==
    UNION { Range(out.builds[i].implicit) :
              i \in { j \in 1..Len(out.builds) : out.builds[j].rule = rule } }

\* C17 (as claimed): in a generated graph, a tool whose path the user
\* supplied is produced by no step; a tool with no path and a tag has exactly
\* one download step, carrying that tag, and the downloaded path is an
\* implicit dependency of the compile rules that use the tool.
C17_ToolStepsAsClaimed ==
    gen_pc = "done" =>
        \A t \in ToolSpecs :
            /\ t.path # NoPath => StepsProducing(t.tool) = {}
            /\ (t.path = NoPath /\ t.tag # Unset) =>
                  /\ Cardinality(DownloadsOf(t.tool, t.tag)) = 1
                  /\ \A i \in DownloadsOf(t.tool, t.tag) : \A r \in t.rules :
                        out.builds[i].outputs \in ImplicitOf(r)

\* C8: a run with no compilers path and no compilers tag (and nothing else
\* missing) ends in the error that names the compilers, and config.json,
\* build.ninja and objdiff.json are then exactly as they were before the run.
C8_MissingCompilersTouchesNothing ==
    (OnlyCompilersMissing /\ GenEnded) =>
        /\ gen_pc = "failed"
        /\ gen_error = ExitMissing("compilers_tag")
        /\ FilesAsBefore

\* C9: a run that starts with a required attribute unset (the toolkit's tag
\* being set) ends in the error that names the first unset attribute of the
\* list, and config.json, build.ninja and objdiff.json are then exactly as
\* they were before the run.
C9_UnsetAttributeNamedBeforeAnyFile ==
    (config.unset # {} /\ config.dtk_tag # Unset /\ GenEnded) =>
        /\ gen_pc = "failed"
        /\ gen_error = Validate(config)
        /\ FilesAsBefore

====
